---- MODULE Spec2Model ----
(***************************************************************************)
(* MealSplit: the settlement engine (app/api/v1/settlements.py) and the    *)
(* receipt-line matching store (app/api/v1/receipts.py,                    *)
(* app/services/advanced_matching_service.py).                             *)
(*                                                                         *)
(* Money.  The source computes in binary floating point.  The model        *)
(* computes the same expressions exactly, in fixed point: a line price is  *)
(* a whole number of cents, and every amount of the settlement             *)
(* computation (paid, fair share, delta, the running remainders, the       *)
(* stored Settlement.amount) is held in 1/Grid of a cent, where Grid is a  *)
(* multiple of every possible total weight, so that                        *)
(* total_spend * w / total_weight is an integer and 0.005 is Grid / 2.     *)
(* Floating-point noise of the order of 1e-15 is not modelled.             *)
(***************************************************************************)
EXTENDS Integers, Sequences, FiniteSets, TLC

\* ---------------------------------------------------------------- bounds
MaxUsers == 3
MaxReceipts == 2
MaxLines == 1
MaxReceiptLines == 2
MaxIngredients == 2
MaxTexts == 2
MaxLineMatches == 2
MaxConfirmations == 2
MaxWords == 3

\* ----------------------------------------------------------- input domains
Users == 1..MaxUsers
\* share_default values of the household_users rows present at the start (0 is
\* the falsy value that "m.share_default or 1.0" replaces by 1.0); a user who
\* joins gets 1.0
ShareDefaults == {0, 2}
\* line_price values in cents (0 also stands for a missing price; a negative
\* price is a refund or discount line, which the OCR result may carry)
Prices == {-100, 0, 1, 10000}
\* purchased_at as a day number; the planning week starts on day week_start
Days == {0, 7}
week_start == 0
\* the planning week that exists, and the ids a request may name
planning_week_id == 1
WeekIds == {1, 2}

VARIABLES
    members,      \* household_users rows of the household, in query order
    receipts,     \* receipts rows of the household, with their receipt_lines
    settlements,  \* committed rows of the settlements table
    response,     \* what the most recent close, read or matching call returned
    tx,           \* the session of each concurrent close or pending-matches request
    stable,       \* history: the week's rows as the last commit of a close left them
    line_matches, \* rows of the line_matches table, in id order
    confirmations,\* rows of the user_match_confirmations table, in id order
    line_text,    \* the normalized text of each receipt line of the receipt
    lexical,      \* how each text compares with each ingredient's name and unit
    raw_text      \* a text handed to the normalizer or the unit parser, as its words

vars == <<members, receipts, settlements, response, tx, stable,
          line_matches, confirmations, line_text, lexical, raw_text>>

\* the variables of the matching store
matchVars == <<line_matches, confirmations, line_text, lexical, raw_text>>

\* the variables only the concurrent closes touch
concVars == <<tx, stable>>

\* ------------------------------------------------------------- arithmetic
Min(a, b) == IF a <= b THEN a ELSE b

Abs(a) == IF a < 0 THEN -a ELSE a

RECURSIVE SumSeq(_)
SumSeq(s) == IF s = <<>> THEN 0 ELSE Head(s) + SumSeq(Tail(s))

RECURSIVE Gcd(_, _)
Gcd(a, b) == IF b = 0 THEN a ELSE Gcd(b, a % b)

\* the least common multiple of 1..n
RECURSIVE LcmUpTo(_)
LcmUpTo(n) == IF n <= 1 THEN 1 ELSE (LcmUpTo(n - 1) * n) \div Gcd(LcmUpTo(n - 1), n)

\* the largest weight a member can have, and the fixed-point grid: amounts are
\* held in 1/Grid of a cent
MaxWeight == CHOOSE x \in ShareDefaults \cup {1} : \A y \in ShareDefaults \cup {1} : y <= x

Grid == 2 * LcmUpTo(MaxUsers * MaxWeight)

\* 0.005 and 0.01
EPS == Grid \div 2

Cent == Grid

\* no rounding at all
Round2_Unrounded(x) == x

\* round(x, 2) for an amount x >= 0: the nearest whole number of cents.  A tie
\* goes to the even cent, as Python's round does on an exactly representable half.
Round2(x) ==
    LET q == x \div Grid
        r == x % Grid
    IN  IF 2 * r < Grid THEN q * Grid
        ELSE IF 2 * r > Grid THEN (q + 1) * Grid
        ELSE IF q % 2 = 0 THEN q * Grid ELSE (q + 1) * Grid

\* ------------------------------------------------ close_week_settlement: the computation
\* every member weighs 1.0, whatever share_default says
weights_AllEqual(ms) == [k \in 1..Len(ms) |-> 1]

\* weights = {m.user_id: (m.share_default or 1.0) for m in members}, by position in members
weights(ms) ==
    [k \in 1..Len(ms) |-> IF ms[k].share_default = 0 THEN 1 ELSE ms[k].share_default]

\* total_weight = sum(weights.values()) or 1.0
total_weight(ms) ==
    LET s == SumSeq(weights(ms)) IN IF s = 0 THEN 1 ELSE s

\* the filter of the receipts query: purchased_at in [week_start, week_start + 7 days)
InWeek(r) == r.purchased_at >= week_start /\ r.purchased_at < week_start + 7

\* receipt_total: the sum of (line.line_price or 0.0) over the receipt's lines
receipt_total(r) == Grid * SumSeq(r.receipt_lines)

\* the receipts query without its filter on purchased_at
Contribution_AnyDate(r) == IF receipt_total(r) > 0 THEN receipt_total(r) ELSE 0

\* what receipt r adds to total_spend and to paid_by[r.payer_id]: nothing when it
\* is outside the week or when receipt_total <= 0.0 (the "continue")
Contribution(r) ==
    IF InWeek(r) /\ receipt_total(r) > 0 THEN receipt_total(r) ELSE 0

\* paid_by[uid] after the loop over the week's receipts
RECURSIVE paid_by(_, _)
paid_by(rs, uid) ==
    IF rs = <<>> THEN 0
    ELSE (IF Head(rs).payer_id = uid THEN Contribution(Head(rs)) ELSE 0)
         + paid_by(Tail(rs), uid)

\* total_spend after the loop over the week's receipts
RECURSIVE total_spend(_)
total_spend(rs) ==
    IF rs = <<>> THEN 0 ELSE Contribution(Head(rs)) + total_spend(Tail(rs))

\* fair_share[uid] = total_spend * (weights[uid] / total_weight), by position in members
fair_share(ms, rs) ==
    LET spend == total_spend(rs)
        w == weights(ms)
        tw == total_weight(ms)
    IN  [k \in 1..Len(ms) |-> (spend * w[k]) \div tw]

\* deltas[uid] = paid_by.get(uid, 0.0) - fair_share[uid], by position in members
deltas(ms, rs) ==
    LET fair == fair_share(ms, rs)
    IN  [k \in 1..Len(ms) |-> paid_by(rs, ms[k].user_id) - fair[k]]

\* [(uid, amt) for uid, amt in deltas.items() if amt > 0.005], in dict order,
\* from position k on; d is deltas
RECURSIVE CreditorsFrom(_, _, _)
CreditorsFrom(ms, d, k) ==
    IF k > Len(ms) THEN <<>>
    ELSE (IF d[k] > EPS THEN << <<ms[k].user_id, d[k]>> >> ELSE <<>>)
         \o CreditorsFrom(ms, d, k + 1)

\* [(uid, -amt) for uid, amt in deltas.items() if amt < -0.005], in dict order,
\* from position k on
RECURSIVE DebtorsFrom(_, _, _)
DebtorsFrom(ms, d, k) ==
    IF k > Len(ms) THEN <<>>
    ELSE (IF d[k] < -EPS THEN << <<ms[k].user_id, -d[k]>> >> ELSE <<>>)
         \o DebtorsFrom(ms, d, k + 1)

\* list.sort(key=lambda x: x[1], reverse=True): stable, descending by amount
RECURSIVE InsertDesc(_, _)
InsertDesc(x, s) ==
    IF s = <<>> THEN <<x>>
    ELSE IF Head(s)[2] >= x[2] THEN <<Head(s)>> \o InsertDesc(x, Tail(s))
    ELSE <<x>> \o s

RECURSIVE SortDesc(_)
SortDesc(s) ==
    IF s = <<>> THEN <<>>
    ELSE InsertDesc(s[Len(s)], SortDesc(SubSeq(s, 1, Len(s) - 1)))

\* every member with a positive delta is a creditor, however small the credit
creditors_NoTolerance(ms, rs) ==
    LET d == deltas(ms, rs)
    IN  SortDesc(SelectSeq([k \in 1..Len(ms) |-> <<ms[k].user_id, d[k]>>],
                           LAMBDA x : x[2] > 0))

\* the sorted list creditors of (uid, amount owed to uid)
creditors(ms, rs) == SortDesc(CreditorsFrom(ms, deltas(ms, rs), 1))

\* every member with a negative delta is a debtor, however small the debt
debtors_NoTolerance(ms, rs) ==
    LET d == deltas(ms, rs)
    IN  SortDesc(SelectSeq([k \in 1..Len(ms) |-> <<ms[k].user_id, -d[k]>>],
                           LAMBDA x : x[2] > 0))

\* the sorted list debtors of (uid, amount uid owes)
debtors(ms, rs) == SortDesc(DebtorsFrom(ms, deltas(ms, rs), 1))

\* payer and payee exchanged
NewSettlement_Reversed(week_id, debtor_id, creditor_id, pay) ==
    [planning_week_id |-> week_id, payer_id |-> creditor_id,
     payee_id |-> debtor_id, amount |-> Round2(pay)]

\* the Settlement object added for one pairing: amount = round(pay, 2)
NewSettlement(week_id, debtor_id, creditor_id, pay) ==
    [planning_week_id |-> week_id, payer_id |-> debtor_id,
     payee_id |-> creditor_id, amount |-> Round2(pay)]

\* a loop that moves at most 50.00 per iteration
RECURSIVE Greedy_Capped(_, _, _, _, _, _, _)
Greedy_Capped(week_id, ds, cs, i, j, out, steps) ==
    IF ~(i <= Len(ds) /\ j <= Len(cs)) THEN <<out, steps>>
    ELSE LET pay == Min(Min(ds[i][2], cs[j][2]), 5000 * Grid)
             owe2 == ds[i][2] - pay
             owed2 == cs[j][2] - pay
         IN  Greedy_Capped(week_id,
                           [ds EXCEPT ![i] = <<ds[i][1], owe2>>],
                           [cs EXCEPT ![j] = <<cs[j][1], owed2>>],
                           IF owe2 <= EPS THEN i + 1 ELSE i,
                           IF owed2 <= EPS THEN j + 1 ELSE j,
                           Append(out, NewSettlement(week_id, ds[i][1], cs[j][1], pay)),
                           steps + 1)

\* a loop whose first iteration pays only half of what it could
RECURSIVE Greedy_HalfFirst(_, _, _, _, _, _, _)
Greedy_HalfFirst(week_id, ds, cs, i, j, out, steps) ==
    IF ~(i <= Len(ds) /\ j <= Len(cs)) THEN <<out, steps>>
    ELSE LET pay == IF steps = 0 THEN Min(ds[i][2], cs[j][2]) \div 2
                    ELSE Min(ds[i][2], cs[j][2])
             owe2 == ds[i][2] - pay
             owed2 == cs[j][2] - pay
         IN  Greedy_HalfFirst(week_id,
                              [ds EXCEPT ![i] = <<ds[i][1], owe2>>],
                              [cs EXCEPT ![j] = <<cs[j][1], owed2>>],
                              IF owe2 <= EPS THEN i + 1 ELSE i,
                              IF owed2 <= EPS THEN j + 1 ELSE j,
                              Append(out, NewSettlement(week_id, ds[i][1], cs[j][1], pay)),
                              steps + 1)

\* the greedy loop "while i < len(debtors) and j < len(creditors)" from the
\* pointers i, j on (1-based); out is the sequence of Settlement objects added to
\* the session so far, steps the number of iterations run so far.  The result
\* is the pair <<out, steps>> at loop exit.
RECURSIVE Greedy(_, _, _, _, _, _, _)
Greedy(week_id, ds, cs, i, j, out, steps) ==
    IF ~(i <= Len(ds) /\ j <= Len(cs)) THEN <<out, steps>>
    ELSE LET owe_amt == ds[i][2]
             owed_amt == cs[j][2]
             pay == Min(owe_amt, owed_amt)
             out2 == IF pay > 0
                     THEN Append(out, NewSettlement(week_id, ds[i][1], cs[j][1], pay))
                     ELSE out
             owe2 == owe_amt - pay
             owed2 == owed_amt - pay
             ds2 == [ds EXCEPT ![i] = <<ds[i][1], owe2>>]
             cs2 == [cs EXCEPT ![j] = <<cs[j][1], owed2>>]
             i2 == IF owe2 <= EPS THEN i + 1 ELSE i
             j2 == IF owed2 <= EPS THEN j + 1 ELSE j
         IN  Greedy(week_id, ds2, cs2, i2, j2, out2, steps + 1)

\* the Settlement objects one close adds to its session, in order
Transfers(week_id, ms, rs) ==
    Greedy(week_id, debtors(ms, rs), creditors(ms, rs), 1, 1, <<>>, 0)[1]

\* the number of iterations of the greedy loop
Iterations(week_id, ms, rs) ==
    Greedy(week_id, debtors(ms, rs), creditors(ms, rs), 1, 1, <<>>, 0)[2]

\* ------------------------------------------------------------- the tables
IsMember(ms, uid) == \E k \in 1..Len(ms) : ms[k].user_id = uid

\* the rows of the settlements table for one week
WeekRows(tbl, week_id) == {s \in tbl : s.planning_week_id = week_id}

\* the DELETE left out
DeleteWeek_Nothing(tbl, week_id) == tbl

\* db.query(Settlement).filter(Settlement.planning_week_id == week_id).delete()
DeleteWeek(tbl, week_id) == tbl \ WeekRows(tbl, week_id)

\* the primary key (planning_week_id, payer_id, payee_id) of Settlement
Key(s) == <<s.planning_week_id, s.payer_id, s.payee_id>>

Range(q) == {q[k] : k \in 1..Len(q)}

\* the flush of the added objects raises IntegrityError when two of them, or one
\* of them and a row left in the table, have the same primary key
KeyConflict(tbl, added) ==
    \/ \E a, b \in 1..Len(added) : a # b /\ Key(added[a]) = Key(added[b])
    \/ \E a \in 1..Len(added) : \E s \in tbl : Key(s) = Key(added[a])

LineLists == UNION {[1..n -> Prices] : n \in 0..MaxLines}

NoResponse == [op |-> "none"]

\* the concurrent close requests
Procs == {1, 2}

\* the receipt lines of the receipt under matching, the catalog ingredients, and
\* the distinct normalized texts the lines may carry
ReceiptLineIds == 1..MaxReceiptLines

IngredientIds == 1..MaxIngredients

Texts == 1..MaxTexts

\* the matching store is empty and nothing is a candidate
NoMatching ==
    /\ line_matches = <<>>
    /\ confirmations = <<>>
    /\ line_text = [l \in ReceiptLineIds |-> 1]
    /\ lexical = [pair \in Texts \X IngredientIds |->
                      [exact |-> FALSE, fuzzy |-> 0, partial |-> 0, synonym |-> 0,
                       units_compatible |-> TRUE]]
    /\ raw_text = <<>>

\* a close request that has not started
IdleTx == [pc |-> "idle"]

\* ------------------------------------------------------------------ Init
\* A household with its household_users rows (user ids ascending, any
\* share_default), no receipt yet and no settlement yet.
Init ==
    /\ \E S \in SUBSET Users :
         \E sd \in [S -> ShareDefaults] :
           members = LET ids == CHOOSE q \in [1..Cardinality(S) -> S] :
                                   \A a, b \in 1..Cardinality(S) : a < b => q[a] < q[b]
                     IN  [k \in 1..Cardinality(S) |->
                            [user_id |-> ids[k], share_default |-> sd[ids[k]]]]
    /\ receipts = <<>>
    /\ settlements = {}
    /\ response = NoResponse
    /\ tx = [p \in Procs |-> IdleTx]
    /\ stable = {}
    /\ NoMatching

\* ---------------------------------------------------------------- actions
\* The requests that are refused without touching a table (a user who is
\* already a member joining, a non-member uploading or reading, an unknown
\* week) are guards, except for close_week_settlement, whose refusals are
\* recorded in response.  response is reset when a table it was computed
\* from changes.

\* POST /households/{id}/join
join_household(current_user) ==
    /\ ~IsMember(members, current_user)
    /\ members' = Append(members, [user_id |-> current_user, share_default |-> 1])
    /\ response' = NoResponse
    /\ UNCHANGED <<receipts, settlements, concVars, matchVars>>

\* POST /receipts/: a member uploads a receipt dated now (inside the week); it
\* has no line until OCR ran
upload_receipt(current_user) ==
    /\ Len(receipts) < MaxReceipts
    /\ IsMember(members, current_user)
    /\ receipts' = Append(receipts,
                      [payer_id |-> current_user, purchased_at |-> week_start,
                       status |-> "pending", receipt_lines |-> <<>>])
    /\ response' = NoResponse
    /\ UNCHANGED <<members, settlements, concVars, matchVars>>

\* OCRWorker.process_receipt on a pending receipt: the purchase date and the
\* lines the OCR result carries are committed together with status "completed"
process_receipt(r, purchase_date, items) ==
    /\ r \in 1..Len(receipts)
    /\ receipts[r].status = "pending"
    /\ receipts' = [receipts EXCEPT ![r] =
                      [@ EXCEPT !.purchased_at = purchase_date,
                                !.status = "completed",
                                !.receipt_lines = items]]
    /\ response' = NoResponse
    /\ UNCHANGED <<members, settlements, concVars, matchVars>>

\* a response of a close that committed.  Besides what the handler returns
\* (message, created) it records two facts of the run: again, that the request
\* before it was a committed close too with no change of the tables in
\* between, and deleted, the row count of the DELETE statement.
Closed(resp) == resp.op = "close" /\ resp.status = 200

\* sum(settlement.amount for settlement in settlements)
RECURSIVE SumAmounts(_)
SumAmounts(rows) ==
    IF rows = {} THEN 0
    ELSE LET s == CHOOSE s \in rows : TRUE
         IN  s.amount + SumAmounts(rows \ {s})

\* the body returned by GET /weeks/{week_id}/settlement for the rows it read
WeekSettlement(rows) ==
    [op |-> "get", status |-> 200, settlements |-> rows,
     total_amount |-> SumAmounts(rows),
     is_balanced |-> (Abs(SumAmounts(rows)) < Cent)]

\* GET /weeks/{week_id}/settlement
get_week_settlement(week_id, current_user) ==
    /\ week_id = planning_week_id
    /\ IsMember(members, current_user)
    /\ response' = WeekSettlement(WeekRows(settlements, week_id))
    /\ UNCHANGED <<members, receipts, settlements, concVars, matchVars>>

\* POST /weeks/{week_id}/close, run alone: its one transaction commits at the end
close_week_settlement(week_id, current_user) ==
    /\ week_id = planning_week_id
    /\ UNCHANGED <<concVars, matchVars>>
    /\ IF ~IsMember(members, current_user)
       THEN /\ response' = [op |-> "close", status |-> 403]
            /\ UNCHANGED <<members, receipts, settlements>>
       ELSE IF members = <<>>
       THEN /\ response' = [op |-> "close", status |-> 400]
            /\ UNCHANGED <<members, receipts, settlements>>
       ELSE IF total_spend(receipts) <= 0
       THEN /\ settlements' = DeleteWeek(settlements, week_id)
            /\ response' = [op |-> "close", status |-> 200, message |-> "cleared",
                            created |-> 0, again |-> Closed(response),
                            deleted |-> Cardinality(WeekRows(settlements, week_id))]
            /\ UNCHANGED <<members, receipts>>
       ELSE LET added == Transfers(week_id, members, receipts)
                left == DeleteWeek(settlements, week_id)
            IN  IF KeyConflict(left, added)
                THEN /\ response' = [op |-> "close", status |-> 500]
                     /\ UNCHANGED <<members, receipts, settlements>>
                ELSE /\ settlements' = left \cup Range(added)
                     /\ response' = [op |-> "close", status |-> 200,
                                     message |-> "closed", created |-> Len(added),
                                     again |-> Closed(response),
                                     deleted |-> Cardinality(WeekRows(settlements, week_id))]
                              /\ UNCHANGED <<members, receipts>>

Next ==
    \/ \E u \in Users : join_household(u)
    \/ \E u \in Users : upload_receipt(u)
    \/ \E r \in 1..MaxReceipts, d \in Days, items \in LineLists : process_receipt(r, d, items)
    \/ \E w \in WeekIds, u \in Users : get_week_settlement(w, u)
    \/ \E w \in WeekIds, u \in Users : close_week_settlement(w, u)

Spec == Init /\ [][Next]_vars

\* ======================================================================
\* Concurrent closes and readers (PostgreSQL, READ COMMITTED)
\* ======================================================================
\* Each close request p runs in its own session and transaction, tx[p]:
\*   idle -> computed   the handler read members and receipts and computed its plan
\*        -> deleting   its DELETE statement took its snapshot of the week's rows
\*        -> flushing   the DELETE locked and deleted the rows of its snapshot
\*                      that are still there
\*        -> done       db.commit() flushed the INSERTs and committed, or the
\*                      flush raised IntegrityError and the transaction rolled back
\* The reads of one request are taken as one snapshot.  settlements holds the
\* committed rows, which is what every other session reads.

\* the DELETE committed on its own, before the INSERTs
AfterDelete_Autocommit(tbl, rows) == tbl \ rows

\* the committed rows once an open transaction has deleted rows: unchanged, no
\* commit stands between the DELETE and the commit that follows the INSERTs
AfterDelete(tbl, rows) == tbl

\* the transaction of p is open and holds locks
Active(p) == tx[p].pc = "flushing"

\* the handler up to the branch on total_spend: the checks, and the plan
close_begin(p, current_user) ==
    /\ tx[p].pc = "idle"
    /\ tx' = [tx EXCEPT ![p] =
                IF ~IsMember(members, current_user)
                THEN [pc |-> "done", status |-> 403]
                ELSE IF members = <<>>
                THEN [pc |-> "done", status |-> 400]
                ELSE IF total_spend(receipts) <= 0
                THEN [pc |-> "computed", message |-> "cleared", plan |-> <<>>]
                ELSE [pc |-> "computed", message |-> "closed",
                      plan |-> Transfers(planning_week_id, members, receipts)]]
    /\ UNCHANGED <<members, receipts, settlements, response, stable, matchVars>>

\* the DELETE statement starts: it sees the rows committed at this moment
close_delete_start(p) ==
    /\ tx[p].pc = "computed"
    /\ tx' = [tx EXCEPT ![p] =
                [pc |-> "deleting", message |-> @.message, plan |-> @.plan,
                 targets |-> WeekRows(settlements, planning_week_id)]]
    /\ UNCHANGED <<members, receipts, settlements, response, stable, matchVars>>

\* the DELETE statement ends: it waited for the transactions holding a lock on
\* a row of its snapshot, and deletes the rows of the snapshot that are still there
close_delete_finish(p) ==
    /\ tx[p].pc = "deleting"
    /\ \A q \in Procs \ {p} : Active(q) => tx[q].deleted \cap tx[p].targets = {}
    /\ LET rows == tx[p].targets \cap settlements
       IN  /\ tx' = [tx EXCEPT ![p] =
                       [pc |-> "flushing", message |-> @.message, plan |-> @.plan,
                        deleted |-> rows]]
           /\ settlements' = AfterDelete(settlements, rows)
    /\ UNCHANGED <<members, receipts, response, stable, matchVars>>

\* db.commit(): the INSERTs of the plan are flushed, then everything commits.
\* An INSERT waits while another open transaction has deleted a row with its key.
close_commit(p) ==
    /\ tx[p].pc = "flushing"
    /\ \A q \in Procs \ {p} :
         Active(q) => ~KeyConflict(tx[q].deleted \ tx[p].deleted, tx[p].plan)
    /\ LET left == settlements \ tx[p].deleted
       IN  IF KeyConflict(left, tx[p].plan)
           THEN /\ tx' = [tx EXCEPT ![p] =
                            [pc |-> "done", status |-> 500, plan |-> @.plan]]
                /\ UNCHANGED <<settlements, stable>>
           ELSE /\ settlements' = left \cup Range(tx[p].plan)
                /\ stable' = WeekRows(settlements', planning_week_id)
                /\ tx' = [tx EXCEPT ![p] =
                            [pc |-> "done", status |-> 200, plan |-> @.plan,
                             message |-> @.message]]
    /\ UNCHANGED <<members, receipts, response, matchVars>>

\* A household of two members; the first has a processed receipt with one priced
\* line, the second has uploaded a receipt that OCR has not processed yet.
InitConc ==
    /\ \E s1, s2 \in ShareDefaults :
         members = <<[user_id |-> 1, share_default |-> s1],
                     [user_id |-> 2, share_default |-> s2]>>
    /\ \E price \in Prices \ {0} :
         receipts = <<[payer_id |-> 1, purchased_at |-> week_start,
                       status |-> "completed", receipt_lines |-> <<price>>],
                      [payer_id |-> 2, purchased_at |-> week_start,
                       status |-> "pending", receipt_lines |-> <<>>]>>
    /\ settlements = {}
    /\ response = NoResponse
    /\ tx = [p \in Procs |-> IdleTx]
    /\ stable = {}
    /\ NoMatching

NextConc ==
    \/ \E r \in 1..MaxReceipts, d \in Days, items \in LineLists : process_receipt(r, d, items)
    \/ \E w \in WeekIds, u \in Users : get_week_settlement(w, u)
    \/ \E p \in Procs, u \in Users : close_begin(p, u)
    \/ \E p \in Procs : close_delete_start(p)
    \/ \E p \in Procs : close_delete_finish(p)
    \/ \E p \in Procs : close_commit(p)

SpecConc == InitConc /\ [][NextConc]_vars

\* ======================================================================
\* The matching store: LineMatch rows and learning records
\* ======================================================================
\* Confidences are held in 1/10000: One is 1.0.  The string comparisons of the
\* text pipeline (normalisation, fuzz.ratio, the Jaccard word overlap, the
\* synonym ratio, the unit families) are represented by their results:
\* lexical[<<text, g>>] records how the normalized text compares with the
\* normalized name of ingredient g, and whether the unit parsed from a line of
\* that text is compatible with g's unit.
One == 10000

exact_threshold == 9000

high_confidence_threshold == 8500

medium_confidence_threshold == 6000

min_threshold == 5000

\* the values a similarity score of different strings may take: 0, 0.40,
\* 0.80, 0.95
StageScores == {0, 4000, 8000, 9500}

\* equal normalized strings: every similarity is 1.0
ExactComparison(compatible) ==
    [exact |-> TRUE, fuzzy |-> One, partial |-> One, synonym |-> One,
     units_compatible |-> compatible]

\* the ingredient name has nothing in common with the text
NoComparison ==
    [exact |-> FALSE, fuzzy |-> 0, partial |-> 0, synonym |-> 0,
     units_compatible |-> TRUE]

\* different strings with a fuzzy ratio that meets min_threshold
FuzzyComparison(score) ==
    [exact |-> FALSE, fuzzy |-> score, partial |-> 0, synonym |-> 0,
     units_compatible |-> TRUE]

\* every way a text may compare with an ingredient name
Comparisons ==
    {ExactComparison(c) : c \in BOOLEAN}
        \cup [exact : {FALSE}, fuzzy : StageScores, partial : {0, 8000},
              synonym : {0, 8000}, units_compatible : BOOLEAN]

\* the outcome of gemini.embed_texts: no usable vectors, or the cosine
\* similarity of the line text to each ingredient name
NoEmbedding == [g \in IngredientIds |-> -1]

Similarities == {5000, One}

Embeddings == {NoEmbedding} \cup {[g \in IngredientIds |-> sim] : sim \in Similarities}

\* What the Gemini service does during one matching call: is_enabled(), the
\* text normalize_text returns (0 for None) and the outcome of embed_texts.
GeminiDisabled == [enabled |-> FALSE, normalized |-> 0, embedding |-> NoEmbedding]

GeminiEnabled == [enabled : {TRUE}, normalized : {0} \cup Texts, embedding : Embeddings]

GeminiOutcomes == {GeminiDisabled} \cup GeminiEnabled

\* the exception find_matches_for_receipt_line raises
RuntimeError == "RuntimeError"

\* the ingredients of the recipes planned for week planning_week_id
week_ingredient_ids == {1}

\* the bodies of the confirm and manual-match requests
MatchData ==
    [recipe_ingredient_id : IngredientIds, qty_consumed : {2}, price_allocated : {100}]

\* receipt_line.qty or receipt_qty or 1.0, and receipt_line.line_price or 0.0
suggested_qty_consumed(l) == 1

suggested_price(l) == 100

\* a _create_match_result that applies the unit penalty to every candidate
_create_match_result_AlwaysPenalised(g, confidence, l, reason) ==
    <<g, (confidence * 4) \div 5, <<reason>>,
      lexical[<<line_text[l], g>>].units_compatible>>

\* _create_match_result: a candidate <<ingredient id, confidence, reason,
\* unit_compatible>>, the confidence x 0.8 when the units are incompatible; the
\* reason is the list of its parts
_create_match_result(g, confidence, l, reason) ==
    LET unit_compatible == lexical[<<line_text[l], g>>].units_compatible
    IN  <<g,
          IF unit_compatible THEN confidence ELSE (confidence * 4) \div 5,
          <<reason>>,
          unit_compatible>>

_get_fuzzy_reason(score) ==
    IF score >= exact_threshold THEN "Near exact match"
    ELSE IF score >= high_confidence_threshold THEN "High confidence fuzzy match"
    ELSE IF score >= medium_confidence_threshold THEN "Medium confidence fuzzy match"
    ELSE "Low confidence fuzzy match"

\* a loop body without "continue": every stage whose condition holds appends
\* its candidate
StageMatch_EveryStage(normalized_text, g, l) ==
    LET c == lexical[<<normalized_text, g>>]
    IN  (IF c.exact
         THEN <<_create_match_result(g, One, l, "Exact normalized match")>> ELSE <<>>)
        \o (IF c.fuzzy >= min_threshold
            THEN <<_create_match_result(g, c.fuzzy, l, _get_fuzzy_reason(c.fuzzy))>>
            ELSE <<>>)
        \o (IF c.partial >= min_threshold
            THEN <<_create_match_result(g, c.partial, l, "Partial word match")>>
            ELSE <<>>)
        \o (IF c.synonym >= min_threshold
            THEN <<_create_match_result(g, c.synonym, l, "Synonym match")>>
            ELSE <<>>)

\* the body of the loop of _multi_stage_matching for ingredient g: the
\* candidate of the first stage whose condition holds, or nothing
StageMatch(normalized_text, g, l) ==
    LET c == lexical[<<normalized_text, g>>]
    IN  IF c.exact
        THEN <<_create_match_result(g, One, l, "Exact normalized match")>>
        ELSE IF c.fuzzy >= min_threshold
        THEN <<_create_match_result(g, c.fuzzy, l, _get_fuzzy_reason(c.fuzzy))>>
        ELSE IF c.partial >= min_threshold
        THEN <<_create_match_result(g, c.partial, l, "Partial word match")>>
        ELSE IF c.synonym >= min_threshold
        THEN <<_create_match_result(g, c.synonym, l, "Synonym match")>>
        ELSE <<>>

\* the candidates of the ingredients from g on, in catalog order
RECURSIVE StageMatchesFrom(_, _, _)
StageMatchesFrom(normalized_text, g, l) ==
    IF g > MaxIngredients THEN <<>>
    ELSE StageMatch(normalized_text, g, l) \o StageMatchesFrom(normalized_text, g + 1, l)

\* _multi_stage_matching: at most one candidate per ingredient, sorted by
\* confidence, descending and stable
_multi_stage_matching(normalized_text, l) ==
    SortDesc(StageMatchesFrom(normalized_text, 1, l))

\* m.confidence = min(1.0, alpha * emb_sim + (1 - alpha) * m.confidence), alpha = 0.7
EmbeddingBlend(matches, emb) ==
    IF emb = NoEmbedding THEN matches
    ELSE [k \in 1..Len(matches) |->
            [matches[k] EXCEPT
                ![2] = Min(One, (7 * emb[matches[k][1]] + 3 * matches[k][2]) \div 10)]]

\* a context boost without the clamp to 1.0
_apply_context_boost_Unclamped(matches, week_id) ==
    IF week_id # planning_week_id THEN matches
    ELSE [k \in 1..Len(matches) |->
            IF matches[k][1] \in week_ingredient_ids
            THEN [matches[k] EXCEPT ![2] = (matches[k][2] * 6) \div 5,
                                    ![3] = Append(@, " (planned this week)")]
            ELSE matches[k]]

\* _apply_context_boost: x 1.2, clamped, for the ingredients planned in the week
_apply_context_boost(matches, week_id) ==
    IF week_id # planning_week_id THEN matches
    ELSE [k \in 1..Len(matches) |->
            IF matches[k][1] \in week_ingredient_ids
            THEN [matches[k] EXCEPT ![2] = Min(One, (matches[k][2] * 6) \div 5),
                                    ![3] = Append(@, " (planned this week)")]
            ELSE matches[k]]

\* a lookup that also takes the records of rejected suggestions
confirmed_ingredient_ids_AnyCorrectness(confs, text) ==
    {confs[k].ingredient_id :
        k \in {n \in 1..Len(confs) : confs[n].normalized_text = text}}

\* the ingredients confirmed before for exactly this normalized text
confirmed_ingredient_ids(confs, text) ==
    {confs[k].ingredient_id :
        k \in {n \in 1..Len(confs) : confs[n].normalized_text = text /\ confs[n].was_correct}}

\* _apply_learning_boost: x 1.15, clamped, for the ingredients confirmed before
_apply_learning_boost(matches, confs, text) ==
    [k \in 1..Len(matches) |->
        IF matches[k][1] \in confirmed_ingredient_ids(confs, text)
        THEN [matches[k] EXCEPT ![2] = Min(One, (matches[k][2] * 23) \div 20),
                                ![3] = Append(@, " (previously confirmed)")]
        ELSE matches[k]]

\* find_matches_for_receipt_line: RuntimeError when Gemini is not configured,
\* else the first five of the blended and boosted list; the stages compare the
\* text Gemini returned (the line's own normalized text when it returned None),
\* the learning boost looks up the line's own normalized text
find_matches_for_receipt_line(confs, l, week_id, gemini) ==
    IF ~gemini.enabled THEN RuntimeError
    ELSE
    LET normalized_text == line_text[l]
        normalized_candidate ==
            IF gemini.normalized = 0 THEN normalized_text ELSE gemini.normalized
        matches == _apply_learning_boost(
                       _apply_context_boost(
                           EmbeddingBlend(_multi_stage_matching(normalized_candidate, l),
                                          gemini.embedding),
                           week_id),
                       confs, normalized_text)
    IN  SubSeq(matches, 1, Min(5, Len(matches)))

\* a LineMatch row
LineMatch(l, g, conf, qty, price) ==
    [receipt_line_id |-> l, recipe_ingredient_id |-> g, confidence |-> conf,
     qty_consumed |-> qty, price_allocated |-> price]

\* AdvancedMatchingService.auto_match_high_confidence on line l: the table after
\* it (unchanged when find_matches_for_receipt_line raises)
auto_match_high_confidence(lm, confs, l, week_id, gemini) ==
    LET matches == find_matches_for_receipt_line(confs, l, week_id, gemini)
    IN  IF matches = RuntimeError \/ matches = <<>> THEN lm
        ELSE IF matches[1][2] >= exact_threshold
        THEN Append(lm, LineMatch(l, matches[1][1], matches[1][2],
                                  suggested_qty_consumed(l), suggested_price(l)))
        ELSE lm

\* the lines of the receipt without any LineMatch: ~ReceiptLine.line_matches.any()
unmatched_lines(lm) ==
    {l \in ReceiptLineIds : \A k \in 1..Len(lm) : lm[k].receipt_line_id # l}

\* the loop "for line in unmatched_lines: auto_match_high_confidence(...)" over the
\* lines from l on; gemini gives what the Gemini service does for each line
RECURSIVE AutoMatchFrom(_, _, _, _, _)
AutoMatchFrom(lm, confs, todo, l, gemini) ==
    IF l > MaxReceiptLines THEN lm
    ELSE AutoMatchFrom(
             IF l \in todo
             THEN auto_match_high_confidence(lm, confs, l, planning_week_id, gemini[l])
             ELSE lm,
             confs, todo, l + 1, gemini)

\* a UserMatchConfirmation row that ignores the was_correct argument
UserMatchConfirmation_AlwaysCorrect(u, l, g, correct) ==
    [user_id |-> u, normalized_text |-> line_text[l], ingredient_id |-> g,
     was_correct |-> TRUE]

\* a UserMatchConfirmation row
UserMatchConfirmation(u, l, g, correct) ==
    [user_id |-> u, normalized_text |-> line_text[l], ingredient_id |-> g,
     was_correct |-> correct]

\* a confirm_match of the matching service that keeps only the new row
advanced_matcher_confirm_match_Replace(confs, u, l, g, was_correct) ==
    <<UserMatchConfirmation(u, l, g, was_correct)>>

\* AdvancedMatchingService.confirm_match: the user_match_confirmations table
\* after the new row is added and committed
advanced_matcher_confirm_match(confs, u, l, g, was_correct) ==
    Append(confs, UserMatchConfirmation(u, l, g, was_correct))

\* GET /receipts/{receipt_id}/matches/pending with GEMINI_API_KEY set (without
\* it the request ends in 501 before anything is written): auto-match of the
\* unmatched lines
get_receipt_pending_matches(current_user, gemini) ==
    /\ IsMember(members, current_user)
    /\ Len(line_matches) + Cardinality(unmatched_lines(line_matches)) <= MaxLineMatches
    /\ line_matches' = AutoMatchFrom(line_matches, confirmations,
                                     unmatched_lines(line_matches), 1, gemini)
    /\ UNCHANGED <<members, receipts, settlements, response, concVars,
                   confirmations, line_text, lexical, raw_text>>

\* MatchingWorker.process_receipt_matching: MatchingService.find_matches_for_receipt_line
\* raises NameError in _get_week_ingredients (Recipe and WeekRecipe are not
\* imported) for every line; the worker logs it and goes on to the next line
process_receipt_matching ==
    /\ UNCHANGED vars

\* POST /receipts/matches/{receipt_line_id}/confirm
confirm_match(current_user, l, match_data) ==
    /\ IsMember(members, current_user)
    /\ LET existing == {k \in 1..Len(line_matches) :
                          /\ line_matches[k].receipt_line_id = l
                          /\ line_matches[k].recipe_ingredient_id
                               = match_data.recipe_ingredient_id}
       IN  IF existing # {}
           THEN \E k \in existing :
                  line_matches' =
                      [line_matches EXCEPT ![k] =
                          [@ EXCEPT !.qty_consumed = match_data.qty_consumed,
                                    !.price_allocated = match_data.price_allocated,
                                    !.confidence = One]]
           ELSE /\ Len(line_matches) < MaxLineMatches
                /\ line_matches' =
                      Append(line_matches,
                             LineMatch(l, match_data.recipe_ingredient_id, One,
                                       match_data.qty_consumed,
                                       match_data.price_allocated))
    /\ UNCHANGED <<members, receipts, settlements, response, concVars,
                   confirmations, line_text, lexical, raw_text>>

\* POST /receipts/lines/{receipt_line_id}/match
create_manual_match(current_user, l, match_data) ==
    /\ IsMember(members, current_user)
    /\ Len(line_matches) < MaxLineMatches
    /\ Len(confirmations) < MaxConfirmations
    /\ line_matches' =
          Append(line_matches,
                 LineMatch(l, match_data.recipe_ingredient_id, One,
                           match_data.qty_consumed, match_data.price_allocated))
    /\ confirmations' =
          advanced_matcher_confirm_match(confirmations, current_user, l,
                                         match_data.recipe_ingredient_id, TRUE)
    /\ UNCHANGED <<members, receipts, settlements, response, concVars,
                   line_text, lexical, raw_text>>

\* POST /receipts/lines/{receipt_line_id}/reject
reject_suggested_match(current_user, l, ingredient_id) ==
    /\ IsMember(members, current_user)
    /\ Len(confirmations) < MaxConfirmations
    /\ confirmations' =
          advanced_matcher_confirm_match(confirmations, current_user, l,
                                         ingredient_id, FALSE)
    /\ UNCHANGED <<members, receipts, settlements, response, concVars,
                   line_matches, line_text, lexical, raw_text>>

\* the comparisons the catalog of the store offers: text 1 names each
\* ingredient not at all, at 0.80 or at 0.95; text 2 names none
StoreCatalogs ==
    {cat \in [Texts \X IngredientIds ->
                 {NoComparison, FuzzyComparison(8000), FuzzyComparison(9500)}] :
        \A g \in IngredientIds : cat[<<2, g>>] = NoComparison}

\* A household of one member and a processed receipt with its lines: the first
\* line carries text 1, the others any text; the store is empty.
InitMatch ==
    /\ members = <<[user_id |-> 1, share_default |-> 1]>>
    /\ receipts = <<[payer_id |-> 1, purchased_at |-> week_start,
                     status |-> "completed", receipt_lines |-> <<>>]>>
    /\ settlements = {}
    /\ response = NoResponse
    /\ tx = [p \in Procs |-> IdleTx]
    /\ stable = {}
    /\ line_matches = <<>>
    /\ confirmations = <<>>
    /\ line_text \in {f \in [ReceiptLineIds -> Texts] : f[1] = 1}
    /\ lexical \in StoreCatalogs
    /\ raw_text = <<>>

NextMatch ==
    \/ \E u \in Users, gemini \in [unmatched_lines(line_matches) -> GeminiEnabled] :
         get_receipt_pending_matches(u, gemini)
    \/ process_receipt_matching
    \/ \E u \in Users, l \in ReceiptLineIds, md \in MatchData : confirm_match(u, l, md)
    \/ \E u \in Users, l \in ReceiptLineIds, md \in MatchData : create_manual_match(u, l, md)
    \/ \E u \in Users, l \in ReceiptLineIds, g \in IngredientIds :
         reject_suggested_match(u, l, g)
    \/ \E w \in WeekIds, u \in Users : close_week_settlement(w, u)

SpecMatch == InitMatch /\ [][NextMatch]_vars

\* ======================================================================
\* The matching pipeline as a function of its inputs
\* ======================================================================
\* the learning records a call may find: none, or one record, of either
\* correctness, for any text and ingredient
LearningHistories ==
    {<<>>} \cup {<<[user_id |-> 1, normalized_text |-> t, ingredient_id |-> g,
                    was_correct |-> c]>> :
                    t \in Texts, g \in IngredientIds, c \in BOOLEAN}

\* the catalogs a call may run against: text 1 compares with each ingredient
\* in any way, text 2 names none
FindCatalogs ==
    {cat \in [Texts \X IngredientIds -> Comparisons] :
        \A g \in IngredientIds : cat[<<2, g>>] = NoComparison}

\* a call of AdvancedMatchingService.find_matches_for_receipt_line; response
\* keeps its arguments, what Gemini did and what it returned or raised.  The
\* call only reads the tables, so one call per behaviour shows all of them.
call_find_matches_for_receipt_line(l, week_id, gemini) ==
    /\ response = NoResponse
    /\ response' =
          [op |-> "find_matches", receipt_line_id |-> l, week_id |-> week_id,
           gemini |-> gemini,
           matches |-> find_matches_for_receipt_line(confirmations, l, week_id, gemini)]
    /\ UNCHANGED <<members, receipts, settlements, concVars, matchVars>>

\* Line 1 carries text 1 and line 2 text 2; the catalog compares any way and
\* the learning records are any history.
InitFind ==
    /\ members = <<[user_id |-> 1, share_default |-> 1]>>
    /\ receipts = <<[payer_id |-> 1, purchased_at |-> week_start,
                     status |-> "completed", receipt_lines |-> <<>>]>>
    /\ settlements = {}
    /\ response = NoResponse
    /\ tx = [p \in Procs |-> IdleTx]
    /\ stable = {}
    /\ line_matches = <<>>
    /\ confirmations \in LearningHistories
    /\ line_text = [l \in ReceiptLineIds |-> IF l = 1 THEN 1 ELSE 2]
    /\ lexical \in FindCatalogs
    /\ raw_text = <<>>

NextFind ==
    \E l \in ReceiptLineIds, w \in WeekIds, gemini \in GeminiOutcomes :
        call_find_matches_for_receipt_line(l, w, gemini)

SpecFind == InitFind /\ [][NextFind]_vars

\* ======================================================================
\* Concurrent auto-matching of one receipt
\* ======================================================================
\* Each pending-matches request p runs in its own session, tx[p]: it lists
\* the unmatched lines of the receipt, then calls auto_match_high_confidence
\* for each of them in turn, and each call commits its LineMatch on its own.

\* request p passes the membership check and lists the unmatched lines
pending_list_unmatched(p, current_user) ==
    /\ tx[p].pc = "idle"
    /\ IsMember(members, current_user)
    /\ tx' = [tx EXCEPT ![p] =
                [pc |-> "matching", todo |-> unmatched_lines(line_matches)]]
    /\ UNCHANGED <<members, receipts, settlements, response, stable, matchVars>>

\* request p runs auto_match_high_confidence on the next line it listed
pending_auto_match(p, gemini) ==
    /\ tx[p].pc = "matching"
    /\ tx[p].todo # {}
    /\ Len(line_matches) < MaxLineMatches
    /\ LET l == CHOOSE m \in tx[p].todo : \A n \in tx[p].todo : m <= n
       IN  /\ line_matches' =
                 auto_match_high_confidence(line_matches, confirmations, l,
                                            planning_week_id, gemini)
           /\ tx' = [tx EXCEPT ![p].todo = @ \ {l}]
    /\ UNCHANGED <<members, receipts, settlements, response, stable,
                   confirmations, line_text, lexical, raw_text>>

\* request p has gone through its lines and answers
pending_respond(p) ==
    /\ tx[p].pc = "matching"
    /\ tx[p].todo = {}
    /\ tx' = [tx EXCEPT ![p] = IdleTx]
    /\ UNCHANGED <<members, receipts, settlements, response, stable, matchVars>>

\* MatchingWorker.reprocess_week_matching: process_receipt_matching for each
\* completed receipt of the week
reprocess_week_matching ==
    /\ process_receipt_matching

NextPending ==
    \/ \E p \in Procs, u \in Users : pending_list_unmatched(p, u)
    \/ \E p \in Procs, gemini \in GeminiEnabled : pending_auto_match(p, gemini)
    \/ \E p \in Procs : pending_respond(p)
    \/ process_receipt_matching
    \/ reprocess_week_matching

SpecPending == InitMatch /\ [][NextPending]_vars

\* ======================================================================
\* The text normalizer
\* ======================================================================
\* A text is held as the sequence of its whitespace-separated words, a word
\* as the sequence of its characters; the normalized string is its words
\* joined by single spaces.

Digits == <<"0", "1", "2", "3", "4", "5", "6", "7", "8", "9">>

IsDigit(c) == \E k \in 1..Len(Digits) : Digits[k] = c

\* the words the texts are made of
NormalizerVocabulary ==
    {<<"g", "l", "a", "s", "s", "e", "s">>,
     <<"g", "l", "a", "s", "s">>,
     <<"b", "e", "r", "r", "i", "e", "s">>,
     <<"p", "e", "a", "s">>,
     <<"g", "a", "s">>,
     <<"t", "h", "e">>,
     <<"n", "e", "w">>,
     <<"n", "e", "w", "s">>,
     <<"u", "k">>,
     <<"5", "0", "0", "g">>,
     <<"2">>,
     <<"a">>}

\* the entries of uk_brands, marketing_words and stop_words among those words
uk_brands == {<<"u", "k">>}

marketing_words == {<<"n", "e", "w">>}

stop_words == {<<"t", "h", "e">>, <<"a">>}

\* the suffix rewrites of plural_patterns, in order
plural_patterns ==
    <<<<<<"i", "e", "s">>, <<"y">>>>,
      <<<<"v", "e", "s">>, <<"f">>>>,
      <<<<"s", "e", "s">>, <<"s">>>>,
      <<<<"c", "h", "e", "s">>, <<"c", "h">>>>,
      <<<<"s", "h", "e", "s">>, <<"s", "h">>>>,
      <<<<"x", "e", "s">>, <<"x">>>>,
      <<<<"o", "e", "s">>, <<"o">>>>,
      <<<<"s">>, <<>>>>>>

EndsWith(word, suffix) ==
    /\ Len(suffix) <= Len(word)
    /\ SubSeq(word, Len(word) - Len(suffix) + 1, Len(word)) = suffix

\* _singularize: words of up to 3 characters are kept; else the first pattern
\* that matches the end of the word rewrites it
_singularize(word) ==
    IF Len(word) <= 3 THEN word
    ELSE IF \A k \in 1..Len(plural_patterns) : ~EndsWith(word, plural_patterns[k][1])
    THEN word
    ELSE LET k == CHOOSE n \in 1..Len(plural_patterns) :
                      /\ EndsWith(word, plural_patterns[n][1])
                      /\ \A m \in 1..(n - 1) : ~EndsWith(word, plural_patterns[m][1])
         IN  SubSeq(word, 1, Len(word) - Len(plural_patterns[k][1]))
                 \o plural_patterns[k][2]

\* _remove_brands and _remove_marketing_words (no multi-word brand occurs in a
\* text of these words)
_remove_brands(words) == SelectSeq(words, LAMBDA x : x \notin uk_brands)

_remove_marketing_words(words) == SelectSeq(words, LAMBDA x : x \notin marketing_words)

\* a word the measurement patterns blank out: a number, or a number directly
\* followed by the unit g
IsMeasurement(word) ==
    /\ word # <<>>
    /\ IsDigit(word[1])
    /\ \E n \in 1..Len(word) :
          /\ \A k \in 1..n : IsDigit(word[k])
          /\ SubSeq(word, n + 1, Len(word)) \in {<<>>, <<"g">>}

_remove_measurements(words) == SelectSeq(words, LAMBDA x : ~IsMeasurement(x))

_normalize_plurals(words) == [k \in 1..Len(words) |-> _singularize(words[k])]

\* _final_cleanup: words of one character and stop words are dropped
_final_cleanup(words) ==
    SelectSeq(SelectSeq(words, LAMBDA x : Len(x) > 1), LAMBDA x : x \notin stop_words)

\* TextNormalizer.normalize
normalize(text) ==
    IF text = <<>> THEN <<>>
    ELSE _final_cleanup(
             _normalize_plurals(
                 _remove_measurements(
                     _remove_marketing_words(_remove_brands(text)))))

\* the texts of up to MaxWords words
RECURSIVE TextsOf(_, _)
TextsOf(vocabulary, n) ==
    IF n = 0 THEN {<<>>}
    ELSE TextsOf(vocabulary, n - 1)
             \cup {Append(t, x) : t \in TextsOf(vocabulary, n - 1), x \in vocabulary}

\* a call of normalize on raw_text; response keeps what it returned
call_normalize ==
    /\ response = NoResponse
    /\ response' = [op |-> "normalize", normalized |-> normalize(raw_text)]
    /\ UNCHANGED <<members, receipts, settlements, concVars, matchVars>>

InitNormalize ==
    /\ members = <<>>
    /\ receipts = <<>>
    /\ settlements = {}
    /\ response = NoResponse
    /\ tx = [p \in Procs |-> IdleTx]
    /\ stable = {}
    /\ line_matches = <<>>
    /\ confirmations = <<>>
    /\ line_text = [l \in ReceiptLineIds |-> 1]
    /\ lexical = [pair \in Texts \X IngredientIds |-> NoComparison]
    /\ raw_text \in TextsOf(NormalizerVocabulary, MaxWords)

NextNormalize == call_normalize

SpecNormalize == InitNormalize /\ [][NextNormalize]_vars

\* ======================================================================
\* The unit parser
\* ======================================================================
\* parse_quantity_unit works on the string: the words joined by single spaces,
\* as a sequence of characters.  The texts hold no decimal point, so a
\* quantity is a whole number.

\* the words the texts are made of
ParserVocabulary ==
    {<<"3">>,
     <<"x">>,
     <<"5", "0", "0", "g">>,
     <<"5", "0", "0">>,
     <<"g">>,
     <<"p", "a", "c", "k">>}

RECURSIVE JoinWords(_)
JoinWords(words) ==
    IF words = <<>> THEN <<>>
    ELSE IF Len(words) = 1 THEN words[1]
    ELSE words[1] \o <<" ">> \o JoinWords(Tail(words))

\* the unit alternatives of the three quantity_patterns, in order
quantity_patterns ==
    <<[multiplied |-> FALSE,
       units |-> <<<<"k", "g">>, <<"g">>, <<"l", "b">>, <<"l", "b", "s">>, <<"o", "z">>, <<"l">>, <<"m", "l">>, <<"p", "i", "n", "t">>, <<"p", "i", "n", "t", "s">>, <<"l", "i", "t", "r", "e">>, <<"l", "i", "t", "r", "e", "s">>>>],
      [multiplied |-> FALSE,
       units |-> <<<<"p", "a", "c", "k">>, <<"p", "a", "c", "k", "s">>, <<"b", "o", "t", "t", "l", "e">>, <<"b", "o", "t", "t", "l", "e", "s">>, <<"t", "i", "n">>, <<"t", "i", "n", "s">>, <<"c", "a", "n">>, <<"c", "a", "n", "s">>>>],
      [multiplied |-> TRUE,
       units |-> <<<<"g">>, <<"m", "l">>, <<"o", "z">>>>]>>

\* the last position of the longest run of characters of `chars` that starts
\* at i (i - 1 when there is none): a greedy \d+ or \s*
RunEnd(s, i, chars) ==
    CHOOSE j \in (i - 1)..Len(s) :
        /\ \A k \in i..j : s[k] \in chars
        /\ j = Len(s) \/ s[j + 1] \notin chars

\* float() of the digits s[i..j]
RECURSIVE NumberValue(_, _, _)
NumberValue(s, i, j) ==
    IF j < i THEN 0
    ELSE 10 * NumberValue(s, i, j - 1)
             + (CHOOSE d \in 0..9 : Digits[d + 1] = s[j])

\* the first alternative of units that the string continues with at i, <<>>
\* when none does
UnitAt(s, i, units) ==
    LET fits(k) == /\ i + Len(units[k]) - 1 <= Len(s)
                   /\ SubSeq(s, i, i + Len(units[k]) - 1) = units[k]
    IN  IF \A k \in 1..Len(units) : ~fits(k) THEN <<>>
        ELSE units[CHOOSE k \in 1..Len(units) :
                       fits(k) /\ \A m \in 1..(k - 1) : ~fits(m)]

\* the match of a pattern that starts at position i: <<quantity, unit>>, or
\* <<>> when the pattern does not match there
MatchAt(s, i, pattern) ==
    LET digits == {Digits[k] : k \in 1..Len(Digits)}
        d1 == RunEnd(s, i, digits)
        s1 == RunEnd(s, d1 + 1, {" "})
    IN  IF d1 < i THEN <<>>
        ELSE IF ~pattern.multiplied
        THEN LET unit == UnitAt(s, s1 + 1, pattern.units)
             IN  IF unit = <<>> THEN <<>>
                 ELSE <<NumberValue(s, i, d1), unit>>
        ELSE IF s1 + 1 > Len(s) \/ s[s1 + 1] # "x" THEN <<>>
        ELSE LET s2 == RunEnd(s, s1 + 2, {" "})
                 d2 == RunEnd(s, s2 + 1, digits)
                 s3 == RunEnd(s, d2 + 1, {" "})
                 unit == UnitAt(s, s3 + 1, pattern.units)
             IN  IF d2 < s2 + 1 \/ unit = <<>> THEN <<>>
                 ELSE <<NumberValue(s, i, d1) * NumberValue(s, s2 + 1, d2), unit>>

\* re.search: the match at the leftmost position that has one, <<>> if none
Search(s, pattern) ==
    IF \A i \in 1..Len(s) : MatchAt(s, i, pattern) = <<>> THEN <<>>
    ELSE MatchAt(s, CHOOSE i \in 1..Len(s) :
                        /\ MatchAt(s, i, pattern) # <<>>
                        /\ \A m \in 1..(i - 1) : MatchAt(s, m, pattern) = <<>>,
                 pattern)

\* the loop over quantity_patterns, from pattern n on
RECURSIVE ParseFrom(_, _)
ParseFrom(s, n) ==
    IF n > Len(quantity_patterns) THEN <<1, <<"u", "n", "i", "t">>>>
    ELSE IF Search(s, quantity_patterns[n]) # <<>> THEN Search(s, quantity_patterns[n])
    ELSE ParseFrom(s, n + 1)

\* UnitConverter.parse_quantity_unit
parse_quantity_unit(text) == ParseFrom(JoinWords(text), 1)

\* a call of parse_quantity_unit on raw_text; response keeps what it returned
call_parse_quantity_unit ==
    /\ response = NoResponse
    /\ response' = [op |-> "parse_quantity_unit", parsed |-> parse_quantity_unit(raw_text)]
    /\ UNCHANGED <<members, receipts, settlements, concVars, matchVars>>

InitParse ==
    /\ members = <<>>
    /\ receipts = <<>>
    /\ settlements = {}
    /\ response = NoResponse
    /\ tx = [p \in Procs |-> IdleTx]
    /\ stable = {}
    /\ line_matches = <<>>
    /\ confirmations = <<>>
    /\ line_text = [l \in ReceiptLineIds |-> 1]
    /\ lexical = [pair \in Texts \X IngredientIds |-> NoComparison]
    /\ raw_text \in TextsOf(ParserVocabulary, MaxWords)

NextParse == call_parse_quantity_unit

SpecParse == InitParse /\ [][NextParse]_vars

\* ======================================================================
\* The OCR worker, step by step
\* ======================================================================
\* tx[r] is the background task the upload of receipt r scheduled: "queued"
\* until it starts, "ocr" between its two commits, "done" after it returned.

\* POST /receipts/ with its background task: the receipt is committed as
\* pending and OCRWorker.process_receipt is scheduled for it, once
upload_receipt_add_task(current_user) ==
    /\ Len(receipts) < MaxReceipts
    /\ IsMember(members, current_user)
    /\ receipts' = Append(receipts,
                      [payer_id |-> current_user, purchased_at |-> week_start,
                       status |-> "pending", receipt_lines |-> <<>>])
    /\ tx' = [tx EXCEPT ![Len(receipts) + 1] = [pc |-> "queued"]]
    /\ response' = NoResponse
    /\ UNCHANGED <<members, settlements, stable, matchVars>>

\* OCRWorker.process_receipt up to its first commit: the status becomes
\* "processing", whatever it was
process_receipt_start(r) ==
    /\ tx[r].pc = "queued"
    /\ receipts' = [receipts EXCEPT ![r].status = "processing"]
    /\ tx' = [tx EXCEPT ![r] = [pc |-> "ocr"]]
    /\ response' = NoResponse
    /\ UNCHANGED <<members, settlements, stable, matchVars>>

\* the rest of the try block: the OCR result is written, its items are added
\* as receipt lines and the status "completed" is committed with them
process_receipt_commit(r, purchase_date, items) ==
    /\ tx[r].pc = "ocr"
    /\ receipts' = [receipts EXCEPT ![r] =
                      [@ EXCEPT !.purchased_at = purchase_date,
                                !.status = "completed",
                                !.receipt_lines = @ \o items]]
    /\ tx' = [tx EXCEPT ![r] = [pc |-> "done"]]
    /\ response' = NoResponse
    /\ UNCHANGED <<members, settlements, stable, matchVars>>

\* the except block: an exception before the second commit (in the OCR call,
\* or while the lines are built, items being the lines added before it) sets
\* the status "failed" and commits what the session holds
process_receipt_except(r, purchase_date, items) ==
    /\ tx[r].pc = "ocr"
    /\ receipts' = [receipts EXCEPT ![r] =
                      [@ EXCEPT !.purchased_at = purchase_date,
                                !.status = "failed",
                                !.receipt_lines = @ \o items]]
    /\ tx' = [tx EXCEPT ![r] = [pc |-> "done"]]
    /\ response' = NoResponse
    /\ UNCHANGED <<members, settlements, stable, matchVars>>

\* a retry that resets a receipt of any status
retry_failed_receipt_AnyStatus(receipt_id) ==
    /\ UNCHANGED <<members, settlements, concVars, matchVars>>
    /\ IF receipt_id > Len(receipts)
       THEN /\ response' = [op |-> "retry", receipt_id |-> receipt_id, result |-> FALSE]
            /\ UNCHANGED receipts
       ELSE /\ receipts' = [receipts EXCEPT ![receipt_id] =
                               [@ EXCEPT !.status = "pending", !.receipt_lines = <<>>]]
            /\ response' = [op |-> "retry", receipt_id |-> receipt_id, result |-> TRUE]

\* OCRWorker.retry_failed_receipt: False and no change for an unknown receipt
\* or one that is not "failed"; else the receipt's lines are deleted and the
\* status is "pending" again.  No task is queued (the send_task call is a comment).
retry_failed_receipt(receipt_id) ==
    /\ UNCHANGED <<members, settlements, concVars, matchVars>>
    /\ IF receipt_id > Len(receipts) \/ receipts[receipt_id].status # "failed"
       THEN /\ response' = [op |-> "retry", receipt_id |-> receipt_id, result |-> FALSE]
            /\ UNCHANGED receipts
       ELSE /\ receipts' = [receipts EXCEPT ![receipt_id] =
                               [@ EXCEPT !.status = "pending", !.receipt_lines = <<>>]]
            /\ response' = [op |-> "retry", receipt_id |-> receipt_id, result |-> TRUE]

NextOcr ==
    \/ \E u \in Users : upload_receipt_add_task(u)
    \/ \E r \in 1..MaxReceipts : process_receipt_start(r)
    \/ \E r \in 1..MaxReceipts, d \in Days, items \in LineLists :
          process_receipt_commit(r, d, items)
    \/ \E r \in 1..MaxReceipts, d \in Days, items \in LineLists :
          process_receipt_except(r, d, items)
    \/ \E r \in 1..MaxReceipts : retry_failed_receipt(r)

SpecOcr == Init /\ [][NextOcr]_vars

\* ======================================================================
\* Properties of the settlement engine, checked under Spec
\* ======================================================================

\* the most recent request was a close that found spend and committed its
\* transfers, and no table has changed since
ClosedWithSpend == Closed(response) /\ response.message = "closed"

\* the rows of the week uid takes part in
RowsOf(uid) ==
    {s \in WeekRows(settlements, planning_week_id) : s.payer_id = uid \/ s.payee_id = uid}

\* (sum of the amounts uid receives as payee) - (sum of the amounts uid pays as payer)
Net(uid) ==
    SumAmounts({s \in WeekRows(settlements, planning_week_id) : s.payee_id = uid})
    - SumAmounts({s \in WeekRows(settlements, planning_week_id) : s.payer_id = uid})

\* C1 as claimed: after a close with positive spend committed, every member's net
\* of the written transfers is within 0.005 of delta = paid - fair_share.
C1_NetWithinEpsilon ==
    ClosedWithSpend =>
        \A k \in 1..Len(members) :
            Abs(Net(members[k].user_id) - deltas(members, receipts)[k]) <= EPS

\* C1 amended: after a close with positive spend committed, every member's net of
\* the written transfers differs from delta by less than 0.005 * (T + N), where
\* T is the number of written transfers the member takes part in (each amount
\* is rounded to cents) and N the number of household members (remainders of
\* at most 0.005 per member are left unsettled).
C1_NetWithinRoundingAndRemainders ==
    ClosedWithSpend =>
        \A k \in 1..Len(members) :
            Abs(Net(members[k].user_id) - deltas(members, receipts)[k])
                < EPS * (Cardinality(RowsOf(members[k].user_id)) + Len(members))

\* a close wrote two transfers to one creditor and the sum of the rounded amounts
\* misses that creditor's delta by more than 0.005
C1_Witness ==
    /\ ClosedWithSpend
    /\ \E k \in 1..Len(members) :
         /\ Cardinality(RowsOf(members[k].user_id)) = 2
         /\ Abs(Net(members[k].user_id) - deltas(members, receipts)[k]) > EPS

\* C2: a close run right after a committed close, with no change of the tables in
\* between and by a member, commits too and leaves the table exactly as the
\* first run left it.
C2_SecondCloseSameTransfers ==
    [][(Closed(response) /\ response'.op = "close" /\ response'.status # 403)
          => (Closed(response') /\ settlements' = settlements)]_vars

\* a second close in succession deleted the rows of the first and wrote them again
C2_Witness ==
    /\ ClosedWithSpend
    /\ response.again
    /\ response.deleted > 0
    /\ response.created = response.deleted

\* the members' share_default values are all positive
AllWeightsPositive == \A k \in 1..Len(members) : members[k].share_default > 0

\* uid paid every resolvable receipt of the week
PaidEverything(uid) == paid_by(receipts, uid) = total_spend(receipts)

\* total_spend * w_i / sum(w), with the weights as stored
ShareOf(k) ==
    (total_spend(receipts) * members[k].share_default)
        \div SumSeq([n \in 1..Len(members) |-> members[n].share_default])

\* the transfer C5 expects of the member at position k towards the payer
ExpectedTransfer(k, payer) ==
    [planning_week_id |-> planning_week_id, payer_id |-> members[k].user_id,
     payee_id |-> payer, amount |-> Round2(ShareOf(k))]

\* C5 as claimed: when one member paid everything and all weights are positive,
\* the close writes exactly one transfer per other member, from that member to
\* the payer, of the member's fair share rounded to cents, and nothing else.
C5_OneTransferPerOtherMember ==
    (ClosedWithSpend /\ AllWeightsPositive) =>
        \A p \in 1..Len(members) :
            PaidEverything(members[p].user_id) =>
                WeekRows(settlements, planning_week_id) =
                    {ExpectedTransfer(k, members[p].user_id) : k \in 1..Len(members) \ {p}}

\* C5 amended: the same, for each other member whose fair share exceeds 0.005; a
\* member whose fair share is at most 0.005 gets no transfer.
C5_OneTransferPerOtherMemberAboveEpsilon ==
    (ClosedWithSpend /\ AllWeightsPositive) =>
        \A p \in 1..Len(members) :
            PaidEverything(members[p].user_id) =>
                WeekRows(settlements, planning_week_id) =
                    {ExpectedTransfer(k, members[p].user_id) :
                        k \in {n \in 1..Len(members) \ {p} : ShareOf(n) > EPS}}

\* weights 2:1:1, everything paid by the weight-2 member, two transfers written
C5_Witness ==
    /\ ClosedWithSpend
    /\ Len(members) = 3
    /\ members[1].share_default = 2
    /\ members[2].share_default = 1
    /\ members[3].share_default = 1
    /\ PaidEverything(members[1].user_id)
    /\ Cardinality(WeekRows(settlements, planning_week_id)) = 2

\* the most recent request was a close that passed the membership and members checks
CloseRan == response.op = "close" /\ response.status \notin {403, 400}

\* no receipt of the week has a positive sum of line prices
NoResolvableSpend ==
    \A r \in 1..Len(receipts) :
        ~(InWeek(receipts[r]) /\ SumSeq(receipts[r].receipt_lines) > 0)

C7_NoMembersConfigurationError ==
    [][(members = <<>> /\ response'.op = "close" /\ response' # response)
          => (response'.status = 400 /\ settlements' = settlements)]_vars

\* the members with delta < -0.005 and with delta > 0.005
NumDebtors ==
    Cardinality({k \in 1..Len(members) : deltas(members, receipts)[k] < -EPS})

NumCreditors ==
    Cardinality({k \in 1..Len(members) : deltas(members, receipts)[k] > EPS})

\* C8 as claimed: one close writes at most min(#debtors, #creditors) transfers.
C8_AtMostMinTransfers ==
    ClosedWithSpend =>
        Cardinality(WeekRows(settlements, planning_week_id))
            <= Min(NumDebtors, NumCreditors)

\* C8 amended: one close writes at most #debtors + #creditors - 1 transfers when
\* there is at least one debtor and one creditor, and none otherwise.
C8_AtMostSumMinusOneTransfers ==
    ClosedWithSpend =>
        Cardinality(WeekRows(settlements, planning_week_id))
            <= (IF NumDebtors = 0 \/ NumCreditors = 0 THEN 0
                ELSE NumDebtors + NumCreditors - 1)

\* one creditor, two debtors, two transfers
C8_Witness ==
    /\ ClosedWithSpend
    /\ NumDebtors = 2
    /\ NumCreditors = 1
    /\ Cardinality(WeekRows(settlements, planning_week_id)) = 2

\* C9: every stored transfer amount is non-negative and a whole number of cents.
C9_AmountsNonNegativeWholeCents ==
    \A s \in settlements : s.amount >= 0 /\ s.amount % Cent = 0

\* a transfer was written for a member whose delta is not a whole number of cents
C9_Witness ==
    /\ ClosedWithSpend
    /\ \E k \in 1..Len(members) :
         /\ deltas(members, receipts)[k] % Cent # 0
         /\ RowsOf(members[k].user_id) # {}

\* receipt r has a priced line: a line whose line_price is present and not 0.0
HasPricedLine(r) == \E n \in 1..Len(r.receipt_lines) : r.receipt_lines[n] # 0

\* the sum of the line prices of receipt r when it is a receipt of the week
\* with a priced line, nothing otherwise
PricedSubtotal(r) ==
    IF InWeek(r) /\ HasPricedLine(r) THEN Grid * SumSeq(r.receipt_lines) ELSE 0

\* C24: in a close, a receipt without priced line adds nothing to total_spend
\* and to its payer's paid amount, and every receipt of the week with priced
\* lines adds the sum of its line prices to both.
C24_PricedReceiptsContributeTheirSum ==
    CloseRan =>
        /\ \A r \in 1..Len(receipts) :
              Contribution(receipts[r]) = PricedSubtotal(receipts[r])
        /\ total_spend(receipts) =
              SumSeq([r \in 1..Len(receipts) |-> PricedSubtotal(receipts[r])])
        /\ \A uid \in Users :
              paid_by(receipts, uid) =
                  SumSeq([r \in 1..Len(receipts) |->
                             IF receipts[r].payer_id = uid
                             THEN PricedSubtotal(receipts[r]) ELSE 0])

\* C26: the transfers one close adds never include two with the same payer and
\* payee, so the flush raises no primary-key error and every added transfer is
\* a row of the week afterwards.
C26_NoDuplicatePairInOneClose ==
    CloseRan =>
        LET added == Transfers(planning_week_id, members, receipts)
        IN  /\ \A a, b \in 1..Len(added) : a # b => Key(added[a]) # Key(added[b])
            /\ response.status # 500
            /\ ClosedWithSpend =>
                  Cardinality(WeekRows(settlements, planning_week_id)) = response.created

\* one debtor paid two creditors in one close: two rows with the same payer
C26_Witness ==
    /\ ClosedWithSpend
    /\ response.created = 2
    /\ \E s, t \in WeekRows(settlements, planning_week_id) :
          s.payer_id = t.payer_id /\ s.payee_id # t.payee_id

\* the delta of the member with user id uid
DeltaOf(uid) ==
    LET k == CHOOSE k \in 1..Len(members) : members[k].user_id = uid
    IN  deltas(members, receipts)[k]

C28_GreedyLoopIterationsBounded ==
    CloseRan =>
        /\ Iterations(planning_week_id, members, receipts)
              <= (IF NumDebtors = 0 \/ NumCreditors = 0 THEN 0
                  ELSE NumDebtors + NumCreditors - 1)
        /\ Len(Transfers(planning_week_id, members, receipts))
              <= Iterations(planning_week_id, members, receipts)

\* a close with three members on the two lists ran the loop twice
C28_Witness ==
    /\ ClosedWithSpend
    /\ NumDebtors + NumCreditors = 3
    /\ Iterations(planning_week_id, members, receipts) = 2

\* C30: a get_week_settlement that follows a close which wrote at least one
\* transfer of the week reports is_balanced = true.
C30_ReadAfterCloseIsBalanced ==
    [][(ClosedWithSpend /\ response.created >= 1 /\ response'.op = "get")
          => response'.is_balanced]_vars

\* ======================================================================
\* Properties of concurrent closes and readers, checked under SpecConc
\* ======================================================================

\* C3: whenever get_week_settlement reads the week's transfers, the rows it
\* returns are the complete set that the last committed close left (the set from
\* before a close that is still running, the set from after it once it has
\* committed), never the state in which a running close has deleted the old
\* rows and not yet written the new ones.
C3_ReaderSeesCompleteSet ==
    [][(response'.op = "get" /\ response' # response)
          => response'.settlements = stable]_vars

\* a reader got the complete old set while a close had deleted it in its open
\* transaction and was about to write a different set
C3_Witness ==
    /\ response.op = "get"
    /\ response.settlements # {}
    /\ \E p \in Procs :
         /\ tx[p].pc = "flushing"
         /\ tx[p].deleted = response.settlements
         /\ Range(tx[p].plan) # response.settlements
         /\ tx[p].plan # <<>>

\* both close requests ran as members and have finished
BothFinished == \A p \in Procs : tx[p].pc = "done" /\ tx[p].status \in {200, 500}

\* C4 as claimed: after two concurrent closes of the week have finished, the stored
\* transfer set is the set one of the two calls produces alone, with no mixture
\* of rows from the two callers.
C4_ConcurrentClosesDoNotMix ==
    BothFinished =>
        \E p \in Procs :
            WeekRows(settlements, planning_week_id) = Range(tx[p].plan)

\* ======================================================================
\* Properties of the matching store, checked under SpecMatch
\* ======================================================================

\* the LineMatch rows for receipt line l and ingredient g
RowsFor(l, g) ==
    {k \in 1..Len(line_matches) :
        line_matches[k].receipt_line_id = l /\ line_matches[k].recipe_ingredient_id = g}

\* C10 as claimed: after any sequence of auto-match, confirm_match,
\* create_manual_match and reject_suggested_match operations there is at most one
\* LineMatch row for each (receipt line, ingredient) pair.
C10_AtMostOneLineMatchPerPair ==
    \A l \in ReceiptLineIds, g \in IngredientIds : Cardinality(RowsFor(l, g)) <= 1

\* ======================================================================
\* Properties of auto-matching and of the confirmations
\* ======================================================================

\* the LineMatch rows of receipt line l
RowsForLine(lm, l) == {k \in 1..Len(lm) : lm[k].receipt_line_id = l}

\* C11: however often and however concurrently auto-matching runs on the lines
\* of a receipt, no line ends up with more than one LineMatch.
C11_AutoMatchAtMostOnePerLine ==
    \A l \in ReceiptLineIds : Cardinality(RowsForLine(line_matches, l)) <= 1

\* the position of the highest-confidence candidate of a non-empty list, the
\* first one among equals
TopPosition(matches) ==
    CHOOSE k \in 1..Len(matches) :
        /\ \A j \in 1..Len(matches) : matches[j][2] <= matches[k][2]
        /\ \A j \in 1..(k - 1) : matches[j][2] < matches[k][2]

\* the line a request in its auto-match loop takes next
NextLine(p) == CHOOSE m \in tx[p].todo : \A n \in tx[p].todo : m <= n

\* C12: a call of auto_match_high_confidence creates a LineMatch exactly when the
\* candidate list is non-empty and its highest-confidence candidate reaches
\* 0.90; the row carries that candidate's ingredient and computed confidence and
\* the suggested quantity and price; otherwise the table is left as it was.
C12_AutoMatchIffTopCandidateHigh ==
    [][\A p \in Procs, gemini \in GeminiEnabled :
          pending_auto_match(p, gemini) =>
              LET l == NextLine(p)
                  matches == find_matches_for_receipt_line(
                                 confirmations, l, planning_week_id, gemini)
              IN  IF matches # <<>> /\ matches[TopPosition(matches)][2] >= exact_threshold
                  THEN line_matches' =
                          Append(line_matches,
                                 LineMatch(l, matches[TopPosition(matches)][1],
                                           matches[TopPosition(matches)][2],
                                           suggested_qty_consumed(l),
                                           suggested_price(l)))
                  ELSE line_matches' = line_matches]_vars

\* C13: a step of the confirm endpoint or of the manual-match endpoint leaves a
\* LineMatch of confidence 1.0 for the (line, ingredient) of the request and
\* appends a learning record with was_correct = true for the line's text and
\* that ingredient.
C13_ConfirmationWritesMatchAndRecord ==
    [][\A u \in Users, l \in ReceiptLineIds, md \in MatchData :
          (confirm_match(u, l, md) \/ create_manual_match(u, l, md)) =>
              /\ \E k \in 1..Len(line_matches') :
                    /\ line_matches'[k].receipt_line_id = l
                    /\ line_matches'[k].recipe_ingredient_id = md.recipe_ingredient_id
                    /\ line_matches'[k].confidence = One
              /\ confirmations' =
                    Append(confirmations,
                           [user_id |-> u, normalized_text |-> line_text[l],
                            ingredient_id |-> md.recipe_ingredient_id,
                            was_correct |-> TRUE])]_vars

\* C14: a step of the reject endpoint appends exactly one learning record, with
\* was_correct = false for the line's text and the rejected ingredient, and
\* leaves the LineMatch rows as they were.
C14_RejectAppendsOneNegativeRecord ==
    [][\A u \in Users, l \in ReceiptLineIds, g \in IngredientIds :
          reject_suggested_match(u, l, g) =>
              /\ confirmations' =
                    Append(confirmations,
                           [user_id |-> u, normalized_text |-> line_text[l],
                            ingredient_id |-> g, was_correct |-> FALSE])
              /\ line_matches' = line_matches]_vars

\* a rejection has been recorded while the line has a LineMatch
C14_Witness ==
    /\ confirmations # <<>>
    /\ ~confirmations[Len(confirmations)].was_correct
    /\ \E k \in 1..Len(line_matches) :
          /\ line_text[line_matches[k].receipt_line_id]
               = confirmations[Len(confirmations)].normalized_text
          /\ line_matches[k].recipe_ingredient_id
               = confirmations[Len(confirmations)].ingredient_id

\* C15: a step of the confirm endpoint or of the manual-match endpoint on a line
\* that already has a LineMatch leaves the number of LineMatch rows of that line
\* as it was and leaves one of them with the consumed quantity and allocated
\* price of the request and confidence 1.0.
C15_ConfirmOfMatchedLineUpdatesInPlace ==
    [][\A u \in Users, l \in ReceiptLineIds, md \in MatchData :
          (/\ confirm_match(u, l, md) \/ create_manual_match(u, l, md)
           /\ RowsForLine(line_matches, l) # {}) =>
              /\ Cardinality(RowsForLine(line_matches', l))
                    = Cardinality(RowsForLine(line_matches, l))
              /\ \E k \in RowsForLine(line_matches, l) :
                    line_matches'[k] =
                        LineMatch(l, md.recipe_ingredient_id, One,
                                  md.qty_consumed, md.price_allocated)]_vars

\* C16: no step of the matching store or of the settlement close modifies or
\* deletes a learning record: the table after a step is the table before it,
\* possibly with rows added at its end.
C16_LearningRecordsAppendOnly ==
    [][/\ Len(confirmations') >= Len(confirmations)
       /\ SubSeq(confirmations', 1, Len(confirmations)) = confirmations]_vars

\* two learning records have been stored and the week has been closed
C16_Witness ==
    /\ Len(confirmations) = 2
    /\ Closed(response)

\* ======================================================================
\* Properties of the matching pipeline, checked under SpecFind
\* ======================================================================

\* a call of find_matches_for_receipt_line has returned a list
Found == response.op = "find_matches" /\ response.matches # RuntimeError

\* C17: the returned list has at most 5 candidates, in descending order of
\* their final confidence, candidates of equal confidence in catalog order.
C17_TopFiveInDescendingFinalConfidence ==
    Found =>
        /\ Len(response.matches) <= 5
        /\ \A j, k \in 1..Len(response.matches) :
              j < k =>
                  \/ response.matches[j][2] > response.matches[k][2]
                  \/ /\ response.matches[j][2] = response.matches[k][2]
                     /\ response.matches[j][1] < response.matches[k][1]

\* C18: when the normalized text of the line equals the normalized name of a
\* catalog ingredient, the first candidate returned has confidence 1.0 and the
\* exact-match reason.
C18_ExactMatchIsTopWithFullConfidence ==
    (/\ Found
     /\ \E g \in IngredientIds :
           lexical[<<line_text[response.receipt_line_id], g>>].exact) =>
        /\ response.matches # <<>>
        /\ response.matches[1][2] = One
        /\ response.matches[1][3][1] = "Exact normalized match"

\* the text the stages of the recorded call compared: Gemini's normalisation,
\* or the line's own normalized text when Gemini returned none
ComparedText ==
    IF response.gemini.normalized = 0
    THEN line_text[response.receipt_line_id]
    ELSE response.gemini.normalized

\* the ingredients whose normalized name equals the compared text and whose
\* unit is compatible with the line's
ExactCompatible ==
    {g \in IngredientIds :
        /\ lexical[<<ComparedText, g>>].exact
        /\ lexical[<<line_text[response.receipt_line_id], g>>].units_compatible}

\* C18 (amended): when the compared text equals the normalized name of an
\* ingredient of compatible unit and the embedding blend is skipped, the first
\* candidate returned has confidence 1.0, and every returned candidate of such
\* an ingredient has confidence 1.0 and a reason that begins with the
\* exact-match reason.
C18_ExactCompatibleUnblendedIsTop ==
    (/\ Found
     /\ response.gemini.embedding = NoEmbedding
     /\ ExactCompatible # {}) =>
        /\ response.matches # <<>>
        /\ response.matches[1][2] = One
        /\ \A k \in 1..Len(response.matches) :
              response.matches[k][1] \in ExactCompatible =>
                  /\ response.matches[k][2] = One
                  /\ response.matches[k][3][1] = "Exact normalized match"

\* an exact match of compatible unit came back ahead of a fuzzy candidate
C18_Witness ==
    /\ Found
    /\ response.gemini.embedding = NoEmbedding
    /\ Len(response.matches) = 2
    /\ response.matches[1][1] \in ExactCompatible
    /\ response.matches[2][1] \notin ExactCompatible
    /\ response.matches[2][3][1] # "Exact normalized match"

\* every confidence of a candidate list lies in [0, 1]
InUnitInterval(matches) ==
    \A k \in 1..Len(matches) : 0 <= matches[k][2] /\ matches[k][2] <= One

\* the lists the recorded call went through: after the stages and the unit
\* penalty, after the embedding blend, after the context boost
StagedOfCall == _multi_stage_matching(ComparedText, response.receipt_line_id)

BlendedOfCall == EmbeddingBlend(StagedOfCall, response.gemini.embedding)

ContextBoostedOfCall == _apply_context_boost(BlendedOfCall, response.week_id)

\* C19: every candidate returned has a confidence in [0, 1], and so has every
\* candidate after each step of the call: the unit penalty, the embedding
\* blend, the context boost and the learning boost.
C19_ConfidenceInUnitInterval ==
    Found =>
        /\ InUnitInterval(StagedOfCall)
        /\ InUnitInterval(BlendedOfCall)
        /\ InUnitInterval(ContextBoostedOfCall)
        /\ InUnitInterval(response.matches)

\* a candidate of 0.95 after the blend got both boosts and came back at 1.0
C19_Witness ==
    /\ Found
    /\ \E k \in 1..Len(response.matches) :
          /\ BlendedOfCall[k][2] = 9500
          /\ Len(response.matches[k][3]) = 3
          /\ response.matches[k][2] = One

\* the recorded call ran without the embedding capability: Gemini is not
\* configured, or the embedding call failed or timed out
WithoutEmbedding ==
    /\ response.op = "find_matches"
    /\ ~response.gemini.enabled \/ response.gemini.embedding = NoEmbedding

\* the candidates with their lexical confidences followed by the boosts, the
\* semantic refinement left out
LexicalOfCall ==
    LET matches == _apply_learning_boost(
                       _apply_context_boost(StagedOfCall, response.week_id),
                       confirmations, line_text[response.receipt_line_id])
    IN  SubSeq(matches, 1, Min(5, Len(matches)))

\* C20: a call without the embedding capability raises no error and returns
\* the candidates with their lexical confidences followed by the boosts.
C20_NoEmbeddingFallsBackToLexical ==
    WithoutEmbedding =>
        /\ response.matches # RuntimeError
        /\ response.matches = LexicalOfCall

\* a learning record with was_correct = true exists for the normalized text of
\* the line of the recorded call and ingredient g
PreviouslyConfirmed(g) ==
    \E n \in 1..Len(confirmations) :
        /\ confirmations[n].was_correct
        /\ confirmations[n].normalized_text = line_text[response.receipt_line_id]
        /\ confirmations[n].ingredient_id = g

\* C23: a candidate comes back with min(1.0, 1.15 x its confidence after the
\* context boost) if and only if a learning record with was_correct = true
\* exists for exactly the normalized text of the line and the candidate's
\* ingredient; otherwise (no record, a record with was_correct = false, or one
\* for another text or ingredient) its confidence is unchanged.
C23_LearningBoostIffPositiveRecord ==
    Found =>
        /\ Len(response.matches) = Len(ContextBoostedOfCall)
        /\ \A k \in 1..Len(response.matches) :
              /\ response.matches[k][1] = ContextBoostedOfCall[k][1]
              /\ response.matches[k][2] =
                    IF PreviouslyConfirmed(ContextBoostedOfCall[k][1])
                    THEN Min(One, (ContextBoostedOfCall[k][2] * 23) \div 20)
                    ELSE ContextBoostedOfCall[k][2]

\* of two candidates one was confirmed before and came back raised, the other
\* came back as it was
C23_Witness ==
    /\ Found
    /\ Len(response.matches) = 2
    /\ \E j, k \in 1..2 :
          /\ PreviouslyConfirmed(response.matches[j][1])
          /\ response.matches[j][2] > ContextBoostedOfCall[j][2]
          /\ ~PreviouslyConfirmed(response.matches[k][1])
          /\ response.matches[k][2] = ContextBoostedOfCall[k][2]

\* the stages whose inclusion condition ingredient g meets for the text the
\* recorded call compared: 1 exact, 2 fuzzy, 3 partial-word, 4 synonym
StagesMet(g) ==
    LET c == lexical[<<ComparedText, g>>]
    IN  {n \in 1..4 :
            \/ n = 1 /\ c.exact
            \/ n = 2 /\ c.fuzzy >= min_threshold
            \/ n = 3 /\ c.partial >= min_threshold
            \/ n = 4 /\ c.synonym >= min_threshold}

\* the base score stage n gives ingredient g
StageScore(g, n) ==
    LET c == lexical[<<ComparedText, g>>]
    IN  IF n = 1 THEN One ELSE IF n = 2 THEN c.fuzzy
        ELSE IF n = 3 THEN c.partial ELSE c.synonym

\* the reasons stage n gives
StageReasons(n) ==
    IF n = 1 THEN {"Exact normalized match"}
    ELSE IF n = 2 THEN {"Near exact match", "High confidence fuzzy match",
                        "Medium confidence fuzzy match", "Low confidence fuzzy match"}
    ELSE IF n = 3 THEN {"Partial word match"}
    ELSE {"Synonym match"}

\* C25: every ingredient has at most one candidate in the list of the stages
\* and in the returned list; an ingredient that meets no stage has none, one
\* that meets a stage has one in the list of the stages, whose score (before
\* the unit penalty) and reason are those of the first stage it meets, in the
\* order exact, fuzzy, partial-word, synonym; the returned candidate keeps
\* that reason.
C25_OneCandidatePerIngredientFirstStageWins ==
    Found =>
        \A g \in IngredientIds :
            LET staged == {k \in 1..Len(StagedOfCall) : StagedOfCall[k][1] = g}
                returned == {k \in 1..Len(response.matches) : response.matches[k][1] = g}
            IN  /\ Cardinality(staged) = (IF StagesMet(g) = {} THEN 0 ELSE 1)
                /\ Cardinality(returned) <= Cardinality(staged)
                /\ \A k \in staged :
                      LET first == CHOOSE n \in StagesMet(g) :
                                       \A m \in StagesMet(g) : n <= m
                      IN  /\ StagedOfCall[k][2] =
                                IF StagedOfCall[k][4] THEN StageScore(g, first)
                                ELSE (StageScore(g, first) * 4) \div 5
                          /\ StagedOfCall[k][3][1] \in StageReasons(first)
                /\ \A k \in returned, j \in staged :
                      response.matches[k][3][1] = StagedOfCall[j][3][1]

\* one ingredient met the fuzzy, partial-word and synonym stages with different
\* scores and came back once, with the fuzzy reason; the other met none and
\* is absent
C25_Witness ==
    /\ Found
    /\ Len(response.matches) = 1
    /\ StagesMet(response.matches[1][1]) = {2, 3, 4}
    /\ StageScore(response.matches[1][1], 2) # StageScore(response.matches[1][1], 3)
    /\ response.matches[1][3][1] \in StageReasons(2)
    /\ \E g \in IngredientIds : StagesMet(g) = {}

\* ======================================================================
\* Properties of the text functions
\* ======================================================================

\* C21: normalizing the result of normalize gives that result again.
C21_NormalizeIdempotent ==
    response.op = "normalize" => normalize(response.normalized) = response.normalized

\* a text "N x M<unit>": a number, the word x, a number with the unit g
IsMultipliedPack(text) ==
    /\ Len(text) = 3
    /\ text[1] \in {<<"3">>, <<"5", "0", "0">>}
    /\ text[2] = <<"x">>
    /\ text[3] = <<"5", "0", "0", "g">>

\* C22: for a text "N x M<unit>" parse_quantity_unit returns (N * M, unit): the
\* product of the two numbers and the unit; "3 x 500g" gives (1500, "g").
C22_MultipliedPackParsedFirst ==
    (response.op = "parse_quantity_unit" /\ IsMultipliedPack(raw_text)) =>
        response.parsed =
            <<NumberValue(raw_text[1], 1, Len(raw_text[1])) * 500, <<"g">>>>

\* ======================================================================
\* Properties of the OCR worker, checked under SpecOcr
\* ======================================================================

\* C29: the status of a receipt changes only from pending to processing and
\* from processing to completed or failed, in a step of process_receipt, and
\* from failed to pending, in a retry_failed_receipt that returns True; a
\* retry of a receipt that is not failed returns False and changes nothing;
\* the status of a receipt committed as completed with its lines never
\* changes again.
C29_ReceiptStatusTransitions ==
    [][/\ \A r \in 1..Len(receipts) :
            receipts'[r].status # receipts[r].status =>
                \/ /\ <<receipts[r].status, receipts'[r].status>> \in
                          {<<"pending", "processing">>, <<"processing", "completed">>,
                           <<"processing", "failed">>}
                   /\ tx'[r] # tx[r]
                \/ /\ <<receipts[r].status, receipts'[r].status>> = <<"failed", "pending">>
                   /\ response' = [op |-> "retry", receipt_id |-> r, result |-> TRUE]
       /\ \A r \in 1..MaxReceipts :
            (retry_failed_receipt(r)
                 /\ (r > Len(receipts) \/ receipts[r].status # "failed")) =>
                (receipts' = receipts /\ ~response'.result)
       /\ \A r \in 1..Len(receipts) :
            receipts[r].status = "completed" => receipts'[r] = receipts[r]]_vars

\* a failed receipt was retried and is pending again without its lines, while
\* another receipt stays completed with its line
C29_Witness ==
    /\ response.op = "retry"
    /\ response.result
    /\ receipts[response.receipt_id].status = "pending"
    /\ tx[response.receipt_id].pc = "done"
    /\ \E r \in 1..Len(receipts) :
          receipts[r].status = "completed" /\ receipts[r].receipt_lines # <<>>

====
